---- MODULE Spec2Model ----
(***************************************************************************)
(* Verification model of the Local Markdown Executor:                      *)
(*   - the fence parser, identity deriver, block index and result merger   *)
(*     (renderer/execOutput.ts, common/crypto.ts),                         *)
(*   - the renderer's edit / render / run event loop (renderer/index.ts),  *)
(*   - the execution dispatcher, process runner and process tree           *)
(*     terminator (common/ipc.ts).                                         *)
(*                                                                         *)
(* Text is a sequence of atoms.  An atom is a TLA+ string standing for a   *)
(* fixed piece of text: one character (a backtick, a newline, ":") or one *)
(* word ("py", "exitCode:", "<!--").  Offsets are the 0-based offsets of the *)
(* JavaScript code.                                                        *)
(***************************************************************************)
EXTENDS Integers, Sequences, FiniteSets, TLC

VARIABLES
  markdown,      \* merge engine: the document being merged into
  merges,        \* merge engine: the merges made so far, oldest first
  currentMarkdown,  \* renderer: the document text
  codeBlockMap,     \* renderer: the block index
  codeBlockSource,  \* renderer: the document codeBlockMap was parsed from (None at first)
  preview,          \* renderer: the generation of preview.innerHTML and its run controls
  renders,          \* renderer: the renderPreview calls, oldest first
  runs,             \* renderer: the handleRun calls that passed the running check, oldest first
  runningExecIds,   \* renderer: the set of that name
  edits,            \* renderer: the number of input events so far
  lastApply,        \* renderer: what the last applyExecutionResult merged (None at first)
  pc,            \* executor: where the executeCode call is
  host,          \* executor: the platform and the interpreters the host has
  payload,       \* executor: the request (None before the call)
  clock,         \* executor: performance.now(), in ms
  clockSteps,    \* executor: how many times the clock has advanced
  start,         \* executor: executeCode's start
  runtime,       \* executor: runPython's position in runtimes (0 outside runPython)
  dirs,          \* executor: the temp directories made by mkdtemp, oldest first
  child,         \* executor: the child process of the current runProcess call
  timer,         \* executor: runProcess's timeout timer
  armedAt,       \* executor: the clock when the timer was set
  timeout,       \* executor: runProcess's flag of that name
  finished,      \* executor: runProcess's flag of that name
  stdout,        \* executor: runProcess's captured chunks
  stderr,
  terminations,  \* executor: the terminateProcessTree calls, with what they achieved
  pending,       \* executor: how runWithTempFile is about to complete (None before)
  response,      \* executor: what executeCode returned (None before)
  spawns,        \* executor: the spawn calls so far: [command, outcome]
  failures,      \* executor: the internal failures so far
  given,         \* a single call of a pure function: its arguments (None outside)
  computed       \* a single call of a pure function: what it returned (None before)

mergeVars == <<markdown, merges>>

rendererVars ==
  <<currentMarkdown, codeBlockMap, codeBlockSource, preview, renders, runs,
    runningExecIds, edits, lastApply>>

execVars ==
  <<pc, host, payload, clock, clockSteps, start, runtime, dirs, child, timer, armedAt,
    timeout, finished, stdout, stderr, terminations, pending, response, spawns,
    failures>>

callVars == <<given, computed>>

vars == <<mergeVars, rendererVars, execVars, callVars>>

----------------------------------------------------------------------------
(* Strings as sequences of atoms.                                          *)

LF == "\n"
CR == "\r"
TAB == "\t"
SP == " "
TICK == "tick"

\* JavaScript's \s, restricted to the atoms of the model.
IsSpace(c) == c \in {SP, TAB, LF, CR}

\* [ \t]
IsBlank(c) == c \in {SP, TAB}

\* s.slice(a, b) with 0 <= a, b
Slice(s, a, b) == SubSeq(s, a + 1, IF b > Len(s) THEN Len(s) ELSE b)

\* s.slice(a)
SliceFrom(s, a) == SubSeq(s, a + 1, Len(s))

\* s[i], with "" for undefined (an index past the end)
At(s, i) == IF i >= 0 /\ i < Len(s) THEN s[i + 1] ELSE ""

\* s.startsWith(p, i)
StartsWithAt(s, p, i) ==
  /\ i + Len(p) <= Len(s)
  /\ \A k \in 1..Len(p) : s[i + k] = p[k]

\* the index after the longest run of atoms satisfying Test(_) that starts at i
RECURSIVE SkipSpace(_, _)
SkipSpace(s, i) == IF i < Len(s) /\ IsSpace(s[i + 1]) THEN SkipSpace(s, i + 1) ELSE i

RECURSIVE SkipBlank(_, _)
SkipBlank(s, i) == IF i < Len(s) /\ IsBlank(s[i + 1]) THEN SkipBlank(s, i + 1) ELSE i

RECURSIVE SkipTicks(_, _)
SkipTicks(s, i) == IF i < Len(s) /\ s[i + 1] = TICK THEN SkipTicks(s, i + 1) ELSE i

\* [^\r\n]*
RECURSIVE SkipLine(_, _)
SkipLine(s, i) == IF i < Len(s) /\ s[i + 1] \notin {CR, LF} THEN SkipLine(s, i + 1) ELSE i

\* the length of a match of \r?\n at i, 0 when there is none
NewlineAt(s, i) ==
  IF At(s, i) = CR /\ At(s, i + 1) = LF THEN 2
  ELSE IF At(s, i) = LF THEN 1
  ELSE 0

Min(S) == CHOOSE x \in S : \A y \in S : x <= y
Max(S) == CHOOSE x \in S : \A y \in S : x >= y

Repeat(c, n) == [k \in 1..n |-> c]

RECURSIVE Concat(_)
Concat(ss) == IF ss = <<>> THEN <<>> ELSE Head(ss) \o Concat(Tail(ss))

\* an optional value: None, or Some(x)
None == <<>>
Some(x) == <<x>>

----------------------------------------------------------------------------
(* common/crypto.ts                                                        *)

\* The atoms of the model, in the order that gives each its byte.
Atoms ==
  <<LF, CR, TAB, SP, TICK, ":", "py", "Py", "js", "text", "plaintext", "x", "y",
    "<!--", "-->", "exec-output:start id=", "exec-output:end",
    "exitCode:", "status:", "N/A", "ok", "error", "timeout", "unsupported",
    "(timed out)", "(unsupported language)", "(ipc failed)",
    "0", "1", "2", "3", "4", "5", "6", "7", "8", "9", "a", "b", "c", "d", "e", "f",
    "s", "S">>

HexDigits == <<"0", "1", "2", "3", "4", "5", "6", "7", "8", "9", "a", "b", "c", "d", "e", "f">>

\* new TextEncoder().encode(s): atom by atom, the atom's position in Atoms
TextEncode(s) == [k \in 1..Len(s) |-> CHOOSE b \in 1..Len(Atoms) : Atoms[b] = s[k]]

\* subtle.digest('SHA-1', payload), idealised: SHA-1 is taken to be free of
\* collisions, so the digest is the injective image of the payload.
Sha1(bytes) == bytes

\* byte.toString(16).padStart(2, '0'), joined
RECURSIVE bufferToHex(_)
bufferToHex(bytes) ==
  IF bytes = <<>> THEN <<>>
  ELSE <<HexDigits[(Head(bytes) \div 16) + 1], HexDigits[(Head(bytes) % 16) + 1]>>
         \o bufferToHex(Tail(bytes))

\* `${lang}:${code}`
Preimage(lang, code) == lang \o <<":">> \o code

createExecId(lang, code) == bufferToHex(Sha1(TextEncode(Preimage(lang, code))))

----------------------------------------------------------------------------
(* renderer/execOutput.ts: the fence parser                                *)

\* value.trim()
RECURSIVE TrimLeft(_)
TrimLeft(s) == IF s # <<>> /\ IsSpace(Head(s)) THEN TrimLeft(Tail(s)) ELSE s

RECURSIVE TrimRight(_)
TrimRight(s) ==
  IF s # <<>> /\ IsSpace(s[Len(s)]) THEN TrimRight(SubSeq(s, 1, Len(s) - 1)) ELSE s

Trim(s) == TrimRight(TrimLeft(s))

\* toLowerCase(), on the atoms that have an upper-case letter
LowerAtom(c) == IF c = "Py" THEN "py" ELSE c

ToLowerCase(s) == [k \in 1..Len(s) |-> LowerAtom(s[k])]

\* the first piece of s.split(/\s+/), for s that does not start with a space
RECURSIVE FirstToken(_)
FirstToken(s) ==
  IF s = <<>> \/ IsSpace(Head(s)) THEN <<>> ELSE <<Head(s)>> \o FirstToken(Tail(s))

normalizeLanguageId(value) ==
  LET trimmed == ToLowerCase(Trim(value))
  IN  IF Len(trimmed) = 0 THEN <<"plaintext">> ELSE FirstToken(trimmed)

\* value.replace(/\r\n?/g, '\n')
RECURSIVE normalizeLineEndings(_)
normalizeLineEndings(value) ==
  IF value = <<>> THEN <<>>
  ELSE IF Head(value) = CR
       THEN IF Len(value) > 1 /\ value[2] = LF
            THEN <<LF>> \o normalizeLineEndings(SubSeq(value, 3, Len(value)))
            ELSE <<LF>> \o normalizeLineEndings(Tail(value))
       ELSE <<Head(value)>> \o normalizeLineEndings(Tail(value))

NoMatch == [found |-> FALSE]

\* (`{3,})([^\r\n]*)\r?\n matched at j, after a first group of length pre that
\* started at i
FenceRest(md, i, pre) ==
  LET j == i + pre
      t == SkipTicks(md, j)
      k == SkipLine(md, t)
      nl == NewlineAt(md, k)
  IN  IF t - j >= 3 /\ nl > 0
      THEN [found |-> TRUE, index |-> i, pre |-> pre, ticks |-> t - j,
            info |-> Slice(md, t, k), last |-> k + nl]
      ELSE NoMatch

\* /(^|\r?\n)(`{3,})([^\r\n]*)\r?\n/ matched at exactly i: ^ is the start of
\* the input (the expression has no m flag)
FenceAt(md, i) ==
  IF i = 0 /\ FenceRest(md, 0, 0).found THEN FenceRest(md, 0, 0)
  ELSE IF NewlineAt(md, i) > 0 THEN FenceRest(md, i, NewlineAt(md, i))
  ELSE NoMatch

\* fenceRegex.exec(markdown) with fenceRegex.lastIndex = lastIndex
FenceExec(md, lastIndex) ==
  LET hits == {i \in lastIndex..Len(md) : FenceAt(md, i).found}
  IN  IF hits = {} THEN NoMatch ELSE FenceAt(md, Min(hits))

\* `\r?\n${fence}(?=[ \t]*\r?\n|[ \t]*$)` matched at exactly i, fence of n ticks
ClosingAt(md, i, n) ==
  LET pre == NewlineAt(md, i)
      p == i + pre + n
      q == SkipBlank(md, p)
  IN  IF /\ pre > 0
         /\ StartsWithAt(md, Repeat(TICK, n), i + pre)
         /\ (NewlineAt(md, q) > 0 \/ q = Len(md))
      THEN [found |-> TRUE, index |-> i, length |-> pre + n]
      ELSE NoMatch

\* closingRegex.exec(markdown) with closingRegex.lastIndex = contentStart
ClosingExec(md, contentStart, n) ==
  LET hits == {i \in contentStart..Len(md) : ClosingAt(md, i, n).found}
  IN  IF hits = {} THEN NoMatch ELSE ClosingAt(md, Min(hits), n)

\* the end of a block: past the blanks after the closing fence and the line
\* terminator that follows them
BlockEnd(md, closingIndex, closingLength) ==
  LET e == SkipBlank(md, closingIndex + closingLength)
  IN  IF At(md, e) \in {LF, CR}
      THEN IF At(md, e + 1) = LF THEN e + 2 ELSE e + 1
      ELSE e

\* the while loop of parseCodeBlocks, from fenceRegex.lastIndex = lastIndex
RECURSIVE ParseLoop(_, _, _)
ParseLoop(md, lastIndex, blocks) ==
  LET match == FenceExec(md, lastIndex)
  IN  IF ~match.found THEN blocks
      ELSE LET contentStart == match.last
               closingMatch == ClosingExec(md, contentStart, match.ticks)
           IN  IF ~closingMatch.found THEN blocks
               ELSE LET codeRaw == Slice(md, contentStart, closingMatch.index)
                        blockEnd == BlockEnd(md, closingMatch.index, closingMatch.length)
                    IN  ParseLoop(md, blockEnd,
                          Append(blocks,
                            [start |-> match.index + match.pre,
                             end |-> blockEnd,
                             lang |-> normalizeLanguageId(Trim(match.info)),
                             fence |-> Repeat(TICK, match.ticks),
                             codeRaw |-> codeRaw,
                             codeForHash |-> normalizeLineEndings(codeRaw)]))

parseCodeBlocks(md) == ParseLoop(md, 0, <<>>)

\* map.set(execId, block) for each block in turn: a later block replaces an
\* earlier one of the same execution id
RECURSIVE MapSetAll(_, _)
MapSetAll(map, blocks) ==
  IF blocks = <<>> THEN map
  ELSE LET block == Head(blocks)
           execId == createExecId(block.lang, block.codeForHash)
       IN  MapSetAll([k \in DOMAIN map \cup {execId} |->
                        IF k = execId THEN block ELSE map[k]],
                     Tail(blocks))

buildCodeBlockMap(md) == MapSetAll(<<>>, parseCodeBlocks(md))

----------------------------------------------------------------------------
(* renderer/execOutput.ts: the result merger                               *)

\* the decimal rendering of an exit code
Decimal(n) == HexDigits[n + 1]

\* `exitCode: ${result.exitCode ?? 'N/A'} status: ${result.status}`
formatHeader(result) ==
  <<"exitCode:", SP,
    IF result.exitCode = None THEN "N/A" ELSE Decimal(result.exitCode[1]),
    SP, "status:", SP, result.status>>

\* the lengths of the runs matched by body.match(/`+/g)
TickRuns(body) ==
  {SkipTicks(body, i) - i : i \in {k \in 0..(Len(body) - 1) : body[k + 1] = TICK}}

\* a fence of the least length, whatever the body holds
LeastFence(body) == Repeat(TICK, 3)

computeFence(body) ==
  LET ticks == TickRuns(body)
      maxTicks == IF ticks # {} THEN Max(ticks) ELSE 0
      length == Max({3, maxTicks + 1})
  IN  Repeat(TICK, length)

markerStart(execId) == <<"<!--", SP, "exec-output:start id=">> \o execId \o <<SP, "-->">>

markerEnd == <<"<!--", SP, "exec-output:end", SP, "-->">>

\* the body the fence wraps: the header line, then the output
Combined(update) ==
  LET header == formatHeader(update.result)
  IN  IF header # <<>>
      THEN header \o (IF Len(update.output) > 0 THEN <<LF>> ELSE <<>>) \o update.output
      ELSE update.output

buildResultBlock(update) ==
  LET combined == Combined(update)
      fence == computeFence(combined)
      fencedBody == IF Len(combined) > 0
                    THEN fence \o <<"text", LF>> \o combined \o <<LF>> \o fence
                    ELSE fence \o <<"text", LF>> \o fence
  IN  markerStart(update.execId) \o <<LF>> \o fencedBody \o <<LF>> \o markerEnd

\* (text.match(/\r\n/g) ?? []).length > (text.match(/(?<!\r)\n/g) ?? []).length
detectDominantNewline(text) ==
  LET crlfCount == Cardinality({i \in 0..(Len(text) - 1) :
                                  At(text, i) = CR /\ At(text, i + 1) = LF})
      lfCount == Cardinality({i \in 0..(Len(text) - 1) :
                                At(text, i) = LF /\ At(text, i - 1) # CR})
  IN  IF crlfCount > lfCount THEN <<CR, LF>> ELSE <<LF>>

\* s.replace(/(?<!\r)\n/g, '\r\n'), for the part of s from offset i on
RECURSIVE LfToCrlf(_, _)
LfToCrlf(s, i) ==
  IF i >= Len(s) THEN <<>>
  ELSE (IF At(s, i) = LF /\ At(s, i - 1) # CR THEN <<CR, LF>> ELSE <<At(s, i)>>)
         \o LfToCrlf(s, i + 1)

\* an end marker at exactly j, with any spacing inside: the offset after it, or -1
EndMarkerAt(s, j) ==
  LET k == SkipSpace(s, j + 1)
      l == SkipSpace(s, k + 1)
  IN  IF At(s, j) = "<!--" /\ At(s, k) = "exec-output:end" /\ At(s, l) = "-->"
      THEN l + 1 ELSE -1

\* a start marker for execId at exactly a, with any spacing inside: the offset
\* after it, or -1
StartMarkerAt(s, a, execId) ==
  LET b == SkipSpace(s, a + 1)
      c == SkipSpace(s, b + 1 + Len(execId))
  IN  IF /\ At(s, a) = "<!--"
         /\ At(s, b) = "exec-output:start id="
         /\ StartsWithAt(s, execId, b + 1)
         /\ At(s, c) = "-->"
      THEN c + 1 ELSE -1

\* the index after the longest run of atoms of the set that starts at i
RECURSIVE SkipIn(_, _, _)
SkipIn(s, i, set) == IF i < Len(s) /\ s[i + 1] \in set THEN SkipIn(s, i + 1, set) ELSE i

\* after.match(existingPattern): the length of the match, or -1.  The pattern
\* is written in a template literal, where \s and \S stand for the letters s
\* and S, so the expression that is compiled is
\*   ^s*<!--s*exec-output:start id=<execId>s*-->[sS]*?<!--s*exec-output:ends*-->s*
\* Nothing but the letters may stand between the parts of a marker, and
\* nothing but the letters between the start marker and the end marker.
ExistingMatch(after, execId) ==
  LET a == SkipIn(after, 0, {"s"})
      b == SkipIn(after, a + 1, {"s"})
      c == SkipIn(after, b + 1 + Len(execId), {"s"})
      d == SkipIn(after, c + 1, {"s", "S"})
      e == SkipIn(after, d + 1, {"s"})
      f == SkipIn(after, e + 1, {"s"})
  IN  IF /\ At(after, a) = "<!--"
         /\ At(after, b) = "exec-output:start id="
         /\ StartsWithAt(after, execId, b + 1)
         /\ At(after, c) = "-->"
         /\ At(after, d) = "<!--"
         /\ At(after, e) = "exec-output:end"
         /\ At(after, f) = "-->"
      THEN SkipIn(after, f + 1, {"s"})
      ELSE -1

\* update: [execId, result: [exitCode, status], output]
\* a miss that writes the result at the end of the document
AppendsResult(md, update) == md \o buildResultBlock(update)

\* if (!block) { return markdown; }
ReturnUnchanged(md, update) == md

updateMarkdownWithExecution(md, update, blockMap) ==
  IF update.execId \notin DOMAIN blockMap THEN ReturnUnchanged(md, update)
  ELSE
    LET block == blockMap[update.execId]
        newline == detectDominantNewline(md)
        before == Slice(md, 0, block.end)
        after0 == SliceFrom(md, block.end)
        existingMatch == ExistingMatch(after0, update.execId)
        after == IF existingMatch >= 0 THEN SliceFrom(after0, existingMatch) ELSE after0
        needsLeadingNewline == Len(before) > 0 /\ before[Len(before)] \notin {CR, LF}
        needsTrailingNewline == Len(after) > 0 /\ after[1] \notin {LF, CR}
        resultBlock == buildResultBlock(update)
        formattedResultBlock ==
          IF newline = <<LF>> THEN resultBlock ELSE LfToCrlf(resultBlock, 0)
        insertion == (IF needsLeadingNewline THEN newline ELSE <<>>)
                       \o formattedResultBlock
                       \o (IF needsTrailingNewline THEN newline ELSE <<>>)
    IN  before \o insertion \o after

\* the start markers of the document that carry execId
SegmentStarts(md, execId) ==
  {a \in 0..(Len(md) - 1) : StartMarkerAt(md, a, execId) >= 0}

\* the output segment whose start marker is at a: the text from the marker
\* to the end of the first end marker after it (to the end of the document when
\* there is none)
SegmentAt(md, a, execId) ==
  LET d == StartMarkerAt(md, a, execId)
      ends == {j \in d..Len(md) : EndMarkerAt(md, j) >= 0}
  IN  IF ends = {} THEN SliceFrom(md, a) ELSE Slice(md, a, EndMarkerAt(md, Min(ends)))

\* the output segments of the document for execId
SegmentTexts(md, execId) == {SegmentAt(md, a, execId) : a \in SegmentStarts(md, execId)}

----------------------------------------------------------------------------
(* The merge engine on its own: a document is parsed and merged into, each  *)
(* merge with a block index freshly built from the document it merges into. *)

MaxPieces == 3
MaxMerges == 2

Fence3 == Repeat(TICK, 3)

\* what a document is written from
Pieces ==
  { Fence3 \o <<"py", LF, "x", LF>> \o Fence3 \o <<LF>>,          \* a python block
    Fence3 \o <<"text", LF, "exitCode:", SP, "0", SP, "status:", SP, "ok", LF>>
      \o Fence3 \o <<LF>>,                                       \* a text block
    Fence3 \o <<LF>>,                                            \* a bare fence line
    Fence3 \o <<"js", LF>>,                                      \* an opening fence line
    <<"x", LF>>,                                                 \* a line of prose
    <<LF>> }                                                     \* a blank line

RECURSIVE DocsOf(_)
DocsOf(n) ==
  IF n = 0 THEN {<<>>}
  ELSE DocsOf(n - 1) \cup {d \o p : d \in DocsOf(n - 1), p \in Pieces}

InitialDocs == DocsOf(MaxPieces)

SyntheticResults ==
  { [exitCode |-> Some(0), status |-> "ok"],
    [exitCode |-> None, status |-> "timeout"] }

SyntheticOutputs == { <<>>, <<"x">>, markerEnd }

\* an identifier no block of the model has
AbsentId == <<"f", "f">>

MergeInit ==
  /\ markdown \in InitialDocs
  /\ merges = <<>>

\* updatedMarkdown = updateMarkdownWithExecution(markdown, update, index) with
\* index = await buildCodeBlockMap(markdown)
Merge ==
  /\ Len(merges) < MaxMerges
  /\ LET index == buildCodeBlockMap(markdown)
     IN  \E execId \in DOMAIN index \cup {AbsentId},
            result \in SyntheticResults, output \in SyntheticOutputs :
           LET update == [execId |-> execId, result |-> result, output |-> output]
           IN  /\ markdown' = updateMarkdownWithExecution(markdown, update, index)
               /\ merges' = Append(merges, [update |-> update, into |-> markdown,
                                            hit |-> execId \in DOMAIN index])
  /\ UNCHANGED <<rendererVars, execVars, callVars>>

MergeNext == Merge

\* every merge so far was for execId, and found it in its index
MergedOnly(execId) ==
  /\ merges # <<>>
  /\ \A k \in 1..Len(merges) : merges[k].update.execId = execId /\ merges[k].hit

\* C1: after any sequence of merges for one identifier, each with a freshly
\* built index, the document holds exactly one output segment whose start
\* marker carries that identifier.
C1_OneSegmentPerIdentifier ==
  merges # <<>> /\ MergedOnly(merges[1].update.execId)
    => Cardinality(SegmentStarts(markdown, merges[1].update.execId)) = 1

\* C13: merging the same (identifier, result) pair a second time, with the
\* index of the document the first merge made, gives the document of the first
\* merge: as many parsed blocks, and the same single output segment for the
\* identifier.
C13_MergeTwiceIsMergeOnce ==
  /\ Len(merges) = 2
  /\ merges[1].update = merges[2].update
  /\ merges[1].hit /\ merges[2].hit
  => LET once == merges[2].into
         twice == markdown
         execId == merges[1].update.execId
     IN  /\ Len(parseCodeBlocks(twice)) = Len(parseCodeBlocks(once))
         /\ Cardinality(SegmentTexts(once, execId)) = 1
         /\ SegmentTexts(twice, execId) = SegmentTexts(once, execId)

\* the blocks of a parse that carry execId
BlocksWithId(blocks, execId) ==
  {i \in 1..Len(blocks) : createExecId(blocks[i].lang, blocks[i].codeForHash) = execId}

\* the blocks of the document that carry execId and are directly followed by an
\* output segment for it
BlocksWithSegment(md, execId) ==
  LET blocks == parseCodeBlocks(md)
  IN  {i \in BlocksWithId(blocks, execId) :
         StartMarkerAt(md, SkipSpace(md, blocks[i].end), execId) >= 0}

\* the merges so far are one merge for each identifier of the index of the
\* first document
MergedEachOnce ==
  /\ merges # <<>>
  /\ LET index == buildCodeBlockMap(merges[1].into)
     IN  /\ Len(merges) = Cardinality(DOMAIN index)
         /\ {merges[k].update.execId : k \in 1..Len(merges)} = DOMAIN index

\* C14: round trip: after one merge for each identifier of the index of a
\* document, each with a freshly built index, the document holds exactly one
\* output segment for each code block of the first document, and each such
\* block is directly followed by its segment (stated for a document no two
\* blocks of which share an identifier).
C14_RoundTrip ==
  (MergedEachOnce /\ Len(parseCodeBlocks(merges[1].into))
                      = Cardinality(DOMAIN buildCodeBlockMap(merges[1].into)))
    => LET original == parseCodeBlocks(merges[1].into)
       IN  \A execId \in DOMAIN buildCodeBlockMap(merges[1].into) :
             /\ Cardinality(SegmentStarts(markdown, execId))
                  = Cardinality(BlocksWithId(original, execId))
             /\ Cardinality(BlocksWithSegment(markdown, execId))
                  = Cardinality(BlocksWithId(original, execId))

----------------------------------------------------------------------------
(* renderer/markdown.ts: renderMarkdown.  Only the code elements of the     *)
(* rendered preview matter to the renderer; they are what markdown-it's     *)
(* fence rule makes of a document whose fence lines are not indented.       *)

\* the lines of the source, line endings normalised to "\n" as markdown-it does
RECURSIVE LinesOf(_, _)
LinesOf(s, line) ==
  IF s = <<>> THEN (IF line = <<>> THEN <<>> ELSE <<line>>)
  ELSE IF Head(s) = LF THEN <<line>> \o LinesOf(Tail(s), <<>>)
  ELSE LinesOf(Tail(s), Append(line, Head(s)))

\* a line that opens a fence: three or more backticks, none in the info string
OpensFence(line) ==
  LET t == SkipTicks(line, 0)
  IN  t >= 3 /\ \A k \in (t + 1)..Len(line) : line[k] # TICK

\* a line that closes a fence of n backticks: at least n, then only blanks
ClosesFence(line, n) ==
  LET t == SkipTicks(line, 0)
  IN  t >= n /\ SkipBlank(line, t) = Len(line)

\* token.content: the lines, each with its "\n"
RECURSIVE JoinLines(_)
JoinLines(lines) ==
  IF lines = <<>> THEN <<>> ELSE Head(lines) \o <<LF>> \o JoinLines(Tail(lines))

\* the <pre><code> elements from line i on: [langClass, textContent], where
\* langClass is the text after "language-" (None when the element has no class)
RECURSIVE CodeElementsFrom(_, _)
CodeElementsFrom(lines, i) ==
  IF i > Len(lines) THEN <<>>
  ELSE IF ~OpensFence(lines[i]) THEN CodeElementsFrom(lines, i + 1)
  ELSE LET n == SkipTicks(lines[i], 0)
           info == Trim(SliceFrom(lines[i], n))
           closers == {j \in (i + 1)..Len(lines) : ClosesFence(lines[j], n)}
           close == IF closers = {} THEN Len(lines) + 1 ELSE Min(closers)
       IN  <<[langClass |-> IF info = <<>> THEN None ELSE Some(FirstToken(info)),
              textContent |-> JoinLines(SubSeq(lines, i + 1, close - 1))]>>
             \o CodeElementsFrom(lines, close + 1)

\* preview.querySelectorAll('pre > code') after preview.innerHTML = renderMarkdown(md)
RenderedCodeElements(md) == CodeElementsFrom(LinesOf(normalizeLineEndings(md), <<>>), 1)

----------------------------------------------------------------------------
(* The fence parser on its own: one call of parseCodeBlocks on a document   *)
(* written from fence lines of several lengths.                             *)

MaxParsePieces == 3

Fence4 == Repeat(TICK, 4)

\* what a document to parse is written from
ParsePieces ==
  { Fence3 \o <<"py", LF, "x", LF>> \o Fence3 \o <<LF>>,   \* a python block
    Fence3 \o <<"py", LF>>,                                \* an opening fence of three
    Fence4 \o <<"js", LF>>,                                \* an opening fence of four
    Fence3 \o <<SP, LF>>,                                  \* three backticks and a blank
    Fence4 \o <<LF>>,                                      \* four backticks
    <<TICK, TICK, LF>>,                                    \* two backticks
    Fence3 \o <<SP, "x", LF>>,                             \* three backticks, then text
    <<"x", LF>> }                                          \* a line of prose

RECURSIVE DocsFrom(_, _)
DocsFrom(pieces, n) ==
  IF n = 0 THEN {<<>>}
  ELSE DocsFrom(pieces, n - 1) \cup {d \o p : d \in DocsFrom(pieces, n - 1), p \in pieces}

ParseInit ==
  /\ given \in {Some(md) : md \in DocsFrom(ParsePieces, MaxParsePieces)}
  /\ computed = None

\* const blocks = parseCodeBlocks(markdown)
Parse ==
  /\ computed = None
  /\ computed' = Some(parseCodeBlocks(given[1]))
  /\ UNCHANGED <<given, mergeVars, rendererVars, execVars>>

ParseNext == Parse

\* the lines, joined by "\n"
JoinedLines(lines) ==
  LET joined == JoinLines(lines)
  IN  SubSeq(joined, 1, Len(joined) - 1)

\* C15: a block opened by n >= 3 backticks is closed by the first following
\* line of at least n backticks and nothing but blanks after them; every line
\* before that one is raw content of the block (stated for a document that
\* starts with the opening fence, and a block of at least one line).
C15_ClosedByFirstLongEnoughFence ==
  computed # None
    => LET lines == LinesOf(given[1], <<>>)
           n == SkipTicks(lines[1], 0)
           closers == {j \in 2..Len(lines) : ClosesFence(lines[j], n)}
       IN  (lines # <<>> /\ n >= 3 /\ closers # {} /\ Min(closers) > 2)
             => /\ computed[1] # <<>>
                /\ computed[1][1].codeRaw = JoinedLines(SubSeq(lines, 2, Min(closers) - 1))

\* the scan the fence rules prescribe, from line i on with k blocks completed:
\* whether it meets an opening fence that no later line closes, at which line,
\* and how many blocks are completed before it
RECURSIVE FenceScan(_, _, _)
FenceScan(lines, i, k) ==
  IF i > Len(lines) THEN [dangling |-> FALSE, at |-> i, completed |-> k]
  ELSE IF SkipTicks(lines[i], 0) < 3 THEN FenceScan(lines, i + 1, k)
  ELSE LET closers == {j \in (i + 1)..Len(lines) :
                         ClosesFence(lines[j], SkipTicks(lines[i], 0))}
       IN  IF closers = {} THEN [dangling |-> TRUE, at |-> i, completed |-> k]
           ELSE FenceScan(lines, Min(closers) + 1, k + 1)

\* C16: when an opening fence has no closing fence before the end of the
\* document, parse returns the blocks completed before that fence (those it
\* returns for the text before the fence), and no block located after it.
C16_UnterminatedFenceEndsTheScan ==
  computed # None
    => LET lines == LinesOf(given[1], <<>>)
           scan == FenceScan(lines, 1, 0)
           before == JoinLines(SubSeq(lines, 1, scan.at - 1))
       IN  scan.dangling
             => /\ computed[1] = parseCodeBlocks(before)
                /\ \A i \in 1..Len(computed[1]) : computed[1][i].start < Len(before)

\* the fenced blocks the fence rules prescribe from line i on, up to an opening
\* fence that no later line closes: the opening line, the closing line, the
\* language and the content of each
RECURSIVE FencedBlocks(_, _)
FencedBlocks(lines, i) ==
  IF i > Len(lines) THEN <<>>
  ELSE IF SkipTicks(lines[i], 0) < 3 THEN FencedBlocks(lines, i + 1)
  ELSE LET n == SkipTicks(lines[i], 0)
           closers == {j \in (i + 1)..Len(lines) : ClosesFence(lines[j], n)}
       IN  IF closers = {} THEN <<>>
           ELSE <<[first |-> i, last |-> Min(closers),
                   lang |-> normalizeLanguageId(Trim(SliceFrom(lines[i], n))),
                   code |-> JoinedLines(SubSeq(lines, i + 1, Min(closers) - 1))]>>
                  \o FencedBlocks(lines, Min(closers) + 1)

\* the offset at which line i starts
LineOffset(lines, i) == Len(JoinLines(SubSeq(lines, 1, i - 1)))

\* the parsed block is the fenced block: it starts at its opening line and
\* has its language and content
IsFencedBlock(block, fenced, offset) ==
  /\ block.start = offset
  /\ block.lang = fenced.lang
  /\ block.codeRaw = fenced.code

\* C27: a block whose opening fence is on the line directly after the closing
\* fence of the previous block is returned too, with its own language and
\* content (stated for a previous block that parse returns, and a block that
\* parse returns when the text starts with it).
C27_AdjacentBlocksParsed ==
  computed # None
    => LET lines == LinesOf(given[1], <<>>)
           fenced == FencedBlocks(lines, 1)
           blocks == computed[1]
       IN  \A i \in 1..(Len(fenced) - 1) :
             LET alone == parseCodeBlocks(
                            JoinLines(SubSeq(lines, fenced[i + 1].first, Len(lines))))
             IN  (/\ fenced[i + 1].first = fenced[i].last + 1
                  /\ Len(blocks) >= i
                  /\ IsFencedBlock(blocks[i], fenced[i], LineOffset(lines, fenced[i].first))
                  /\ alone # <<>>
                  /\ IsFencedBlock(alone[1], fenced[i + 1], 0))
                   => /\ Len(blocks) >= i + 1
                      /\ IsFencedBlock(blocks[i + 1], fenced[i + 1],
                                        LineOffset(lines, fenced[i + 1].first))

\* C28: a block whose closing fence line directly follows its opening fence
\* line is one block with empty content that ends with that closing line
\* (stated for a document that starts with the opening fence, and a closing
\* fence of the same length).
C28_EmptyBlockParsed ==
  computed # None
    => LET lines == LinesOf(given[1], <<>>)
           n == SkipTicks(lines[1], 0)
       IN  (/\ Len(lines) >= 2
            /\ n >= 3
            /\ SkipTicks(lines[2], 0) = n
            /\ ClosesFence(lines[2], n))
             => /\ computed[1] # <<>>
                /\ computed[1][1].codeRaw = <<>>
                /\ computed[1][1].end = LineOffset(lines, 3)

----------------------------------------------------------------------------
(* The segment builder on its own: one call of buildResultBlock on an       *)
(* update whose output is written from backticks, a letter and line ends.   *)

MaxOutputLen == 4

RECURSIVE TextsOver(_, _)
TextsOver(atoms, n) ==
  IF n = 0 THEN {<<>>}
  ELSE TextsOver(atoms, n - 1)
         \cup {t \o <<c>> : t \in TextsOver(atoms, n - 1), c \in atoms}

BuildInit ==
  /\ given \in {Some([execId |-> AbsentId, result |-> result, output |-> output]) :
                  result \in SyntheticResults,
                  output \in TextsOver({TICK, "x", LF}, MaxOutputLen)}
  /\ computed = None

\* const resultBlock = buildResultBlock(update)
Build ==
  /\ computed = None
  /\ computed' = Some(buildResultBlock(given[1]))
  /\ UNCHANGED <<given, mergeVars, rendererVars, execVars>>

BuildNext == Build

\* the length of the longest run of backticks in the text
LongestRun(text) ==
  Max({n \in 0..Len(text) :
         \E i \in 0..(Len(text) - n) : StartsWithAt(text, Repeat(TICK, n), i)})

\* the length of the run of backticks that opens the wrapper of a segment
OpeningRun(segment, execId) ==
  LET a == Len(markerStart(execId)) + 1
  IN  SkipTicks(segment, a) - a

\* the length of the run of backticks that closes the wrapper of a segment
ClosingRun(segment) ==
  LET b == Len(segment) - Len(markerEnd) - 1
  IN  Max({n \in 0..b : StartsWithAt(segment, Repeat(TICK, n), b - n)})

\* C17: the fence that wraps the body of a segment (the header line and the
\* output) is exactly max(3, k + 1) backticks long, k the length of the longest
\* run of backticks in that body.
C17_FenceOutgrowsBody ==
  computed # None
    => LET k == LongestRun(Combined(given[1]))
           length == IF k + 1 > 3 THEN k + 1 ELSE 3
       IN  /\ OpeningRun(computed[1], given[1].execId) = length
           /\ ClosingRun(computed[1]) = length

\* a segment was built for an output with a run of three backticks or more,
\* and its fence is longer than three
C17_Witness ==
  /\ computed # None
  /\ LongestRun(given[1].output) >= 3
  /\ OpeningRun(computed[1], given[1].execId) = LongestRun(given[1].output) + 1

----------------------------------------------------------------------------
(* The merger on its own: one call of updateMarkdownWithExecution with the  *)
(* index of the document it is given.  The documents hold a python block,  *)
(* text, and output segments for the block: one as buildResultBlock writes *)
(* it, one typed without the spaces inside its markers.                     *)

MaxCallPieces == 3

PyId == createExecId(<<"py">>, <<"x">>)

\* an output segment without spaces in its markers and without a body
TightSegment(execId) ==
  <<"<!--", "exec-output:start id=">> \o execId \o <<"-->", "<!--", "exec-output:end", "-->">>

CallPieces ==
  { Fence3 \o <<"py", LF, "x", LF>> \o Fence3 \o <<LF>>,
    buildResultBlock([execId |-> PyId, result |-> [exitCode |-> Some(0), status |-> "ok"],
                      output |-> <<>>]) \o <<LF>>,
    TightSegment(PyId),
    <<"s", LF>>,
    <<"x", LF>>,
    <<LF>> }

CallInit ==
  /\ given \in {Some([markdown |-> md,
                       update |-> [execId |-> execId, result |-> result, output |-> output],
                       blockMap |-> buildCodeBlockMap(md)]) :
                  md \in DocsFrom(CallPieces, MaxCallPieces),
                  execId \in {PyId, AbsentId},
                  result \in SyntheticResults,
                  output \in {<<>>, <<"x">>}}
  /\ computed = None

\* const updatedMarkdown = updateMarkdownWithExecution(markdown, update, blockMap)
MergeCall ==
  /\ computed = None
  /\ computed' = Some(updateMarkdownWithExecution(given[1].markdown, given[1].update,
                                                  given[1].blockMap))
  /\ UNCHANGED <<given, mergeVars, rendererVars, execVars>>

CallNext == MergeCall

\* the identifier of the call is a key of its index
CallHit == given[1].update.execId \in DOMAIN given[1].blockMap

\* C18: a merge for an identifier that is no key of the given index returns
\* the document it was given, unchanged.
C18_MissReturnsDocument ==
  computed # None /\ ~CallHit => computed[1] = given[1].markdown

\* a merge missed in a document that has an indexed block and an output
\* segment, and a result was returned
C18_Witness ==
  /\ computed # None
  /\ ~CallHit
  /\ DOMAIN given[1].blockMap # {}
  /\ SegmentStarts(given[1].markdown, PyId) # {}

\* the offset after the output segment for execId that text starts with (0
\* when it starts with none)
PreviousSegmentEnd(text, execId) ==
  LET d == StartMarkerAt(text, 0, execId)
      ends == IF d < 0 THEN {} ELSE {j \in d..Len(text) : EndMarkerAt(text, j) >= 0}
  IN  IF ends = {} THEN 0 ELSE EndMarkerAt(text, Min(ends))

\* C19: a merge disturbs no unrelated text: the document up to the end of the
\* block is unchanged, and the text that followed the block, after the output
\* segment for the identifier when one stood there, ends the new document
\* unchanged.
C19_UnrelatedTextKept ==
  computed # None /\ CallHit
    => LET md == given[1].markdown
           execId == given[1].update.execId
           block == given[1].blockMap[execId]
           rest == SliceFrom(md, block.end)
           kept == SliceFrom(rest, PreviousSegmentEnd(rest, execId))
           updated == computed[1]
       IN  /\ Slice(updated, 0, block.end) = Slice(md, 0, block.end)
           /\ Len(updated) >= block.end + Len(kept)
           /\ SliceFrom(updated, Len(updated) - Len(kept)) = kept

\* C23: when an output segment for the identifier follows the block, a merge
\* removes it in full, from its start marker through its end marker: the new
\* document is the text up to the end of the block, the new segment, and the
\* text that followed the old segment (stated for an old segment with the
\* markers buildResultBlock writes).
C23_OldSegmentRemovedInFull ==
  computed # None /\ CallHit
    => LET md == given[1].markdown
           execId == given[1].update.execId
           block == given[1].blockMap[execId]
           rest == SliceFrom(md, block.end)
           kept == SliceFrom(rest, PreviousSegmentEnd(rest, execId))
       IN  StartsWithAt(rest, markerStart(execId), 0)
             => computed[1] \in
                  {Slice(md, 0, block.end) \o buildResultBlock(given[1].update) \o nl \o kept :
                     nl \in {<<>>, <<LF>>}}

\* C25: when two blocks of a document have the language and content of one
\* identifier, the index entry of the identifier is the last of them in
\* document order, and a merge for the identifier writes its segment after
\* that block, replacing the segment that stood there.
C25_DuplicatesShareLastBlock ==
  computed # None /\ given[1].update.execId = PyId
    => LET md == given[1].markdown
           lines == LinesOf(md, <<>>)
           fenced == FencedBlocks(lines, 1)
           twins == {i \in 1..Len(fenced) :
                       createExecId(fenced[i].lang, fenced[i].code) = PyId}
       IN  Cardinality(twins) >= 2
             => /\ CallHit
                /\ LET block == given[1].blockMap[PyId]
                       rest == SliceFrom(md, block.end)
                       kept == SliceFrom(rest, PreviousSegmentEnd(rest, PyId))
                   IN  /\ block.start = LineOffset(lines, fenced[Max(twins)].first)
                       /\ computed[1] \in
                            {Slice(md, 0, block.end) \o buildResultBlock(given[1].update)
                               \o nl \o kept : nl \in {<<>>, <<LF>>}}

----------------------------------------------------------------------------
(* The identity deriver on its own: the identifiers of two blocks, each     *)
(* given by the info string of its opening fence and its raw content.       *)

MaxWordLen == 2

\* the info strings and the contents: a letter and the separator
Words == TextsOver({"x", ":"}, MaxWordLen)

HashInit ==
  /\ given \in {Some(<<[info |-> i1, codeRaw |-> c1], [info |-> i2, codeRaw |-> c2]>>) :
                  i1 \in Words, c1 \in Words, i2 \in Words, c2 \in Words}
  /\ computed = None

\* lang = normalizeLanguageId(info), codeForHash = normalizeLineEndings(codeRaw),
\* execId = await createExecId(block.lang, block.codeForHash)
Identify(block) ==
  LET lang == normalizeLanguageId(Trim(block.info))
      codeForHash == normalizeLineEndings(block.codeRaw)
  IN  [lang |-> lang, codeForHash |-> codeForHash,
       execId |-> createExecId(lang, codeForHash)]

Hash ==
  /\ computed = None
  /\ computed' = Some(<<Identify(given[1][1]), Identify(given[1][2])>>)
  /\ UNCHANGED <<given, mergeVars, rendererVars, execVars>>

HashNext == Hash

\* C20: two blocks that differ in normalized language or in normalized
\* content have different digest preimages, hence different identifiers: text
\* cannot be shifted across the separator.
C20_SeparatorKeepsPairsApart ==
  computed # None
    => LET a == computed[1][1]
           b == computed[1][2]
       IN  (a.lang # b.lang \/ a.codeForHash # b.codeForHash)
             => /\ Preimage(a.lang, a.codeForHash) # Preimage(b.lang, b.codeForHash)
                /\ a.execId # b.execId

----------------------------------------------------------------------------
(* renderer/index.ts                                                       *)

MaxEdits == 1
MaxRuns == 2

PyBlock == Fence3 \o <<"py", LF, "x", LF>> \o Fence3 \o <<LF>>
JsBlock == Fence3 \o <<"js", LF, "y", LF>> \o Fence3 \o <<LF>>

\* INITIAL_CONTENT, cut down to a line of prose, a python block and a
\* javascript block
INITIAL_CONTENT == <<"x", LF, LF>> \o PyBlock \o <<LF>> \o JsBlock

\* what an input event may leave in the editor: two python blocks of the same
\* identifier around a line of prose, or the prose alone
EditDocs == { PyBlock \o <<"x", LF>> \o PyBlock, <<"x", LF>> }

\* the results window.api.executeCode may resolve to, as the renderer sees them
IpcResults ==
  { [exitCode |-> Some(0), stdout |-> <<"x">>, stderr |-> <<>>, status |-> "ok",
     message |-> None],
    [exitCode |-> None, stdout |-> <<>>, stderr |-> <<>>, status |-> "unsupported",
     message |-> Some(<<"(unsupported language)">>)] }

\* the message of the error window.api.executeCode may reject with
IpcFailure == <<"(ipc failed)">>

normalizeCode(value) == normalizeLineEndings(value)

\* a message is truthy when it is a non-empty string
Truthy(message) == message # None /\ message[1] # <<>>

buildOutputText(result) ==
  LET segments == result.stdout \o result.stderr
  IN  IF segments = <<>> /\ Truthy(result.message) THEN result.message[1]
      ELSE IF segments = <<>> /\ result.status = "timeout"
           THEN (IF result.message = None THEN <<"(timed out)">> ELSE result.message[1])
      ELSE IF segments = <<>> /\ result.status = "unsupported"
           THEN (IF result.message = None THEN <<"(unsupported language)">>
                 ELSE result.message[1])
      ELSE segments

\* the run context enhanceCodeBlocks computes for a code element
RunContext(el) ==
  LET lang == normalizeLanguageId(IF el.langClass = None THEN <<>> ELSE el.langClass[1])
      normalizedCode == normalizeCode(el.textContent)
  IN  [execId |-> createExecId(lang, normalizedCode), lang |-> lang,
       code |-> normalizedCode]

\* a renderPreview call at its first await; buildCodeBlockMap has parsed md
\* and awaits one createExecId per block.  owner is the run whose
\* applyExecutionResult awaits the call (0: nobody)
NewRender(md, owner) ==
  [md |-> md, pc |-> "index", awaits |-> Len(parseCodeBlocks(md)), gen |-> 0,
   elems |-> <<>>, owner |-> owner]

\* A render awaiting buildCodeBlockMap of a document without blocks awaits a
\* promise that is already resolved: it resumes before any other event.
Urgent(r) == renders[r].pc = "index" /\ renders[r].awaits = 0

NoMicrotask == \A r \in 1..Len(renders) : ~Urgent(r)

RendererInit ==
  /\ currentMarkdown = INITIAL_CONTENT
  /\ codeBlockMap = <<>>
  /\ codeBlockSource = None
  /\ preview = [gen |-> 0, controls |-> {}]
  /\ renders = <<NewRender(INITIAL_CONTENT, 0)>>
  /\ runs = <<>>
  /\ runningExecIds = {}
  /\ edits = 0
  /\ lastApply = None

\* editor 'input' listener
Input(doc) ==
  /\ NoMicrotask
  /\ edits < MaxEdits
  /\ doc # currentMarkdown
  /\ currentMarkdown' = doc
  /\ renders' = Append(renders, NewRender(doc, 0))
  /\ edits' = edits + 1
  /\ UNCHANGED <<codeBlockMap, codeBlockSource, preview, runs, runningExecIds, lastApply>>
  /\ UNCHANGED <<mergeVars, execVars, callVars>>

\* a finally block that leaves the running set as it is
KeepsRunning(set, execId) == set

\* runningExecIds.delete(context.execId)
Delete(set, execId) == set \ {execId}

\* renderPreview returns: the handleRun that awaits it runs its finally block
Finish(r, rs) ==
  /\ renders' = [rs EXCEPT ![r].pc = "done", ![r].elems = <<>>]
  /\ IF renders[r].owner = 0
     THEN UNCHANGED <<runs, runningExecIds>>
     ELSE /\ runs' = [runs EXCEPT ![renders[r].owner].pc = "done"]
          /\ runningExecIds' = Delete(runningExecIds, runs[renders[r].owner].execId)

\* renderPreview resumes after await buildCodeBlockMap: codeBlockMap is
\* assigned, preview.innerHTML is replaced, enhanceCodeBlocks runs to its
\* first await
RenderIndexed(r) ==
  /\ renders[r].pc = "index"
  /\ Urgent(r) \/ NoMicrotask
  /\ codeBlockMap' = buildCodeBlockMap(renders[r].md)
  /\ codeBlockSource' = Some(renders[r].md)
  /\ preview' = [gen |-> preview.gen + 1, controls |-> {}]
  /\ LET elems == RenderedCodeElements(currentMarkdown)
     IN  IF elems = <<>>
         THEN Finish(r, renders)
         ELSE /\ renders' = [renders EXCEPT ![r].pc = "enhance",
                                            ![r].gen = preview.gen + 1,
                                            ![r].elems = elems]
              /\ UNCHANGED <<runs, runningExecIds>>
  /\ UNCHANGED <<currentMarkdown, edits, lastApply>>
  /\ UNCHANGED <<mergeVars, execVars, callVars>>

\* enhanceCodeBlocks resumes after await createExecId: the element gets its
\* run control (it is in the preview unless a later render replaced innerHTML)
EnhanceStep(r) ==
  /\ renders[r].pc = "enhance"
  /\ NoMicrotask
  /\ preview' = IF renders[r].gen = preview.gen
                THEN [preview EXCEPT !.controls = @ \cup {RunContext(Head(renders[r].elems))}]
                ELSE preview
  /\ IF Tail(renders[r].elems) = <<>>
     THEN Finish(r, renders)
     ELSE /\ renders' = [renders EXCEPT ![r].elems = Tail(@)]
          /\ UNCHANGED <<runs, runningExecIds>>
  /\ UNCHANGED <<currentMarkdown, codeBlockMap, codeBlockSource, edits, lastApply>>
  /\ UNCHANGED <<mergeVars, execVars, callVars>>

NeverRunning(execId) == FALSE

\* runningExecIds.has(execId)
Running(execId) == execId \in runningExecIds

\* handleRun, from a click on a run control, up to await getWorkingDirectory.
\* gen: the generation of the preview whose control was clicked
Click(context) ==
  /\ NoMicrotask
  /\ context \in preview.controls
  /\ Len(runs) < MaxRuns
  /\ ~Running(context.execId)
  /\ runningExecIds' = runningExecIds \cup {context.execId}
  /\ runs' = Append(runs, [execId |-> context.execId, lang |-> context.lang,
                           code |-> context.code, pc |-> "cwd", gen |-> preview.gen])
  /\ UNCHANGED <<currentMarkdown, codeBlockMap, codeBlockSource, preview, renders,
                 edits, lastApply>>
  /\ UNCHANGED <<mergeVars, execVars, callVars>>

\* handleRun resumes after await getWorkingDirectory and sends the request
CwdResolved(k) ==
  /\ NoMicrotask
  /\ runs[k].pc = "cwd"
  /\ runs' = [runs EXCEPT ![k].pc = "exec"]
  /\ UNCHANGED <<currentMarkdown, codeBlockMap, codeBlockSource, preview, renders,
                 runningExecIds, edits, lastApply>>
  /\ UNCHANGED <<mergeVars, execVars, callVars>>

\* applyExecutionResult up to await renderPreview
Apply(k, result, output) ==
  LET update == [execId |-> runs[k].execId,
                 result |-> [exitCode |-> result.exitCode, status |-> result.status],
                 output |-> output]
      updatedMarkdown == updateMarkdownWithExecution(currentMarkdown, update, codeBlockMap)
  IN  /\ currentMarkdown' = updatedMarkdown
      /\ lastApply' = Some([execId |-> runs[k].execId, into |-> currentMarkdown,
                            updatedMarkdown |-> updatedMarkdown,
                            indexFrom |-> codeBlockSource,
                            hit |-> runs[k].execId \in DOMAIN codeBlockMap])
      /\ renders' = Append(renders, NewRender(updatedMarkdown, k))
      /\ runs' = [runs EXCEPT ![k].pc = "apply"]
      /\ UNCHANGED <<codeBlockMap, codeBlockSource, preview, runningExecIds, edits>>

\* handleRun resumes after await executeCode with a result
ExecResolved(k) ==
  /\ NoMicrotask
  /\ runs[k].pc = "exec"
  /\ \E result \in IpcResults : Apply(k, result, buildOutputText(result))
  /\ UNCHANGED <<mergeVars, execVars, callVars>>

\* await executeCode rejects: the catch block applies a fallback result
ExecRejected(k) ==
  /\ NoMicrotask
  /\ runs[k].pc = "exec"
  /\ Apply(k, [exitCode |-> None, status |-> "error"], IpcFailure)
  /\ UNCHANGED <<mergeVars, execVars, callVars>>

RendererNext ==
  \/ \E doc \in EditDocs : Input(doc)
  \/ \E r \in 1..Len(renders) : RenderIndexed(r)
  \/ \E r \in 1..Len(renders) : EnhanceStep(r)
  \/ \E context \in preview.controls : Click(context)
  \/ \E k \in 1..Len(runs) : CwdResolved(k)
  \/ \E k \in 1..Len(runs) : ExecResolved(k)
  \/ \E k \in 1..Len(runs) : ExecRejected(k)

\* the runs whose executeCode request for execId is in flight
InFlight(execId) == {k \in 1..Len(runs) : runs[k].pc = "exec" /\ runs[k].execId = execId}

\* the runs for execId that have not left handleRun
Unfinished(execId) == {k \in 1..Len(runs) : runs[k].pc # "done" /\ runs[k].execId = execId}

\* C11: at any time at most one executeCode request per identifier is in
\* flight, whatever the interleaving of clicks, edits, renders and results; a
\* run holds its identifier in runningExecIds until it has left handleRun.
C11_OneInFlightPerIdentifier ==
  \A k \in 1..Len(runs) :
    /\ Cardinality(InFlight(runs[k].execId)) <= 1
    /\ Cardinality(Unfinished(runs[k].execId)) <= 1
    /\ runs[k].pc # "done" => runs[k].execId \in runningExecIds

\* a request is in flight and a later render has put a run control for the
\* same identifier into the preview, where a click is ignored; an earlier run
\* for the identifier has completed
C11_Witness ==
  \E k \in 1..Len(runs), c \in preview.controls :
    /\ runs[k].pc = "exec"
    /\ c.execId = runs[k].execId
    /\ preview.gen > runs[k].gen
    /\ \E j \in 1..Len(runs) : runs[j].pc = "done" /\ runs[j].execId = runs[k].execId

\* the document md has a block that renders with the run control of execId
BlockPresent(md, execId) ==
  LET elems == RenderedCodeElements(md)
  IN  \E i \in 1..Len(elems) : RunContext(elems[i]).execId = execId

\* C12: a run of a block that is present in the document when its result is
\* applied leaves the document with an output segment for the block's
\* identifier, whatever the outcome (stated for a result applied with the
\* index of the very document it is merged into).
C12_CompletedRunLeavesSegment ==
  /\ lastApply # None
  /\ lastApply[1].indexFrom = Some(lastApply[1].into)
  /\ BlockPresent(lastApply[1].into, lastApply[1].execId)
  => SegmentStarts(lastApply[1].updatedMarkdown, lastApply[1].execId) # {}

\* C2: every merge the renderer performs uses a block index that was built
\* from exactly the document being merged into.
C2_MergeUsesFreshIndex ==
  lastApply # None => lastApply[1].indexFrom = Some(lastApply[1].into)

\* C24: the identifier the renderer attaches to the run control of a block is
\* a key of the block index built from the same document (stated for the
\* initial document, before any edit or merge).
C24_ControlIdIsIndexed ==
  edits = 0 /\ lastApply = None
    => \A c \in preview.controls : c.execId \in DOMAIN codeBlockMap

\* C26: when no renderPreview call is pending, the block index is the one
\* built from the current document text.
C26_IndexOfCurrentText ==
  (\A r \in 1..Len(renders) : renders[r].pc = "done")
    => codeBlockSource = Some(currentMarkdown)

\* C29: the running set is the set of the identifiers whose handleRun has not
\* finished: added before the request is sent, removed once the result, or the
\* fallback of a failed request, has been applied.
C29_RunningSetIsInFlight ==
  runningExecIds = {runs[k].execId : k \in {j \in 1..Len(runs) : runs[j].pc # "done"}}

\* a block is run again after its first run has finished
C29_Witness ==
  \E j, k \in 1..Len(runs) :
    /\ j < k
    /\ runs[j].pc = "done"
    /\ runs[k].pc = "exec"
    /\ runs[k].execId = runs[j].execId
    /\ runningExecIds = {runs[k].execId}

----------------------------------------------------------------------------
(* common/ipc.ts: the 'execute-code' handler, its runners and the process   *)
(* tree terminator                                                          *)

EXECUTION_TIMEOUT_MS == 10000

MaxTicks == 2
MaxChunks == 1

\* the language tags a request may carry
PayloadLangs ==
  { <<"python">>, <<"py">>, <<SP, "Py", SP>>, <<"javascript">>, <<"js">>,
    <<"bash">>, <<"sh">>, <<"text">>, <<"py", SP, "x">> }

\* payload.cwd: null, or the path of a directory that exists or is missing
PayloadCwds == { "null", "present", "missing" }

\* the hosts: win32 has no /bin/bash
Hosts ==
  { h \in [platform : {"posix", "win32"}, bash : BOOLEAN, python3 : BOOLEAN,
           python : BOOLEAN] : h.platform = "win32" => ~h.bash }

\* lang.trim().toLowerCase()
NormalizedLang(lang) == ToLowerCase(Trim(lang))

\* cwd && cwd.length > 0 ? cwd : process.cwd()
WorkingDir(cwd) == IF cwd # "null" THEN cwd ELSE "present"

AlwaysExists(path) == TRUE

\* existsSync(path), for a working directory
existsSync(path) == path # "missing"

RoutesUnknownToNode(normalizedLang) ==
  IF normalizedLang \in {<<"python">>, <<"py">>} THEN "python"
  ELSE IF normalizedLang \in {<<"bash">>, <<"sh">>} THEN "bash"
  ELSE "node"

\* the switch of executeCode: the runner of a normalized language tag
Runner(normalizedLang) ==
  IF normalizedLang \in {<<"python">>, <<"py">>} THEN "python"
  ELSE IF normalizedLang \in {<<"javascript">>, <<"js">>} THEN "node"
  ELSE IF normalizedLang \in {<<"bash">>, <<"sh">>} THEN "bash"
  ELSE "unsupported"

\* runPython's runtimes
Runtimes == <<"python3", "python">>

\* the command runWithTempFile is called with
Command ==
  LET runner == Runner(NormalizedLang(payload.lang))
  IN  IF runner = "python" THEN Runtimes[runtime]
      ELSE IF runner = "node" THEN "node" ELSE "/bin/bash"

\* whether the host can find the command
Installed(command) ==
  IF command = "python3" THEN host.python3
  ELSE IF command = "python" THEN host.python
  ELSE IF command = "/bin/bash" THEN host.bash
  ELSE TRUE

isMissingBinary(error) == error.code = "ENOENT"

\* the ExecutionResult literals of executeCode and its runners
MissingCwdResult ==
  [exitCode |-> None, stdout |-> <<>>, stderr |-> <<>>, status |-> "error",
   message |-> Some("working directory does not exist"), durationMs |-> 0]

UnsupportedResult(message, durationMs) ==
  [exitCode |-> None, stdout |-> <<>>, stderr |-> <<>>, status |-> "unsupported",
   message |-> Some(message), durationMs |-> durationMs]

ErrorResult(error, durationMs) ==
  [exitCode |-> None, stdout |-> <<>>, stderr |-> <<>>, status |-> "error",
   message |-> Some(error.message), durationMs |-> durationMs]

\* a result that keeps the exit code of a process that timed out
KeepsExitCode(runResult, duration) ==
  [exitCode |-> runResult.exitCode,
   stdout |-> runResult.stdout, stderr |-> runResult.stderr,
   status |-> IF runResult.timedOut THEN "timeout"
              ELSE IF runResult.exitCode = Some(0) THEN "ok" ELSE "error",
   message |-> runResult.errorMessage, durationMs |-> duration]

\* the ExecutionResult runWithTempFile makes of what runProcess resolved to
RunResult(runResult, duration) ==
  IF runResult.timedOut
  THEN [exitCode |-> None, stdout |-> <<>>, stderr |-> <<>>, status |-> "timeout",
        message |-> Some("timed out"), durationMs |-> duration]
  ELSE [exitCode |-> runResult.exitCode, stdout |-> runResult.stdout,
        stderr |-> runResult.stderr,
        status |-> IF runResult.exitCode = Some(0) THEN "ok" ELSE "error",
        message |-> runResult.errorMessage, durationMs |-> duration]

Return(value) == [kind |-> "return", value |-> value]
Throw(error) == [kind |-> "throw", error |-> error]

FsError(call, code) == [code |-> code, message |-> call]

\* the catch block of executeCode
executeCodeCatch(error, durationMs) == Return(ErrorResult(error, durationMs))

RemovesFileOnly(dir) == [dir EXCEPT !.file = FALSE]

\* fs.rm(tempDir, { recursive: true, force: true }), when it succeeds
RemoveTree(dir) == [dir EXCEPT !.state = "removed", !.file = FALSE]

\* terminateProcessTree(child): whether the process tree is gone after it.
\* groupKill, pidKill: whether process.kill(-pid) and process.kill(pid) succeed;
\* taskkill: whether taskkill /T /F ends the tree
terminateProcessTree(hasPid, groupKill, pidKill, taskkill) ==
  IF ~hasPid THEN FALSE
  ELSE IF host.platform = "win32" THEN taskkill
  ELSE groupKill \/ pidKill

\* a timer that stays set
KeepsTimer(t) == t

\* clearTimeout(timeoutId): a timer that has fired is no longer there to clear
clearTimeout(t) == IF t = "armed" THEN "cleared" ELSE t

ExecInit ==
  /\ pc = "idle"
  /\ host \in Hosts
  /\ payload = None
  /\ clock = 0
  /\ clockSteps = 0
  /\ start = 0
  /\ runtime = 0
  /\ dirs = <<>>
  /\ child = "none"
  /\ timer = "unset"
  /\ armedAt = 0
  /\ timeout = FALSE
  /\ finished = FALSE
  /\ stdout = <<>>
  /\ stderr = <<>>
  /\ terminations = <<>>
  /\ pending = None
  /\ response = None
  /\ spawns = <<>>
  /\ failures = {}

\* executeCode returns value (or rejects with an error)
Settle(outcome) ==
  IF outcome.kind = "return"
  THEN pc' = "returned" /\ response' = Some(outcome.value)
  ELSE pc' = "raised" /\ response' = response

\* executeCode, up to the switch
ExecuteCode(lang, cwd) ==
  /\ pc = "idle"
  /\ payload' = [lang |-> lang, cwd |-> cwd]
  /\ IF ~existsSync(WorkingDir(cwd))
     THEN Settle(Return(MissingCwdResult)) /\ UNCHANGED start
     ELSE pc' = "switch" /\ start' = clock /\ UNCHANGED response
  /\ UNCHANGED <<host, clock, clockSteps, runtime, dirs, child, timer, armedAt, timeout,
                 finished, stdout, stderr, terminations, pending, spawns, failures>>
  /\ UNCHANGED <<mergeVars, rendererVars, callVars>>

\* the switch of executeCode, and runPython, runNode and runBash up to their
\* call of runWithTempFile
Switch ==
  /\ pc = "switch"
  /\ LET runner == Runner(NormalizedLang(payload.lang))
     IN  IF runner = "python"
         THEN pc' = "mkdtemp" /\ runtime' = 1 /\ UNCHANGED response
         ELSE IF runner = "node"
         THEN pc' = "mkdtemp" /\ UNCHANGED <<runtime, response>>
         ELSE IF runner = "bash" /\ host.bash
         THEN pc' = "mkdtemp" /\ UNCHANGED <<runtime, response>>
         ELSE /\ Settle(Return(UnsupportedResult(
                   IF runner = "bash" THEN "bash/sh is unsupported here"
                   ELSE "this language is unsupported", clock - start)))
              /\ UNCHANGED runtime
  /\ UNCHANGED <<host, payload, clock, clockSteps, start, dirs, child, timer, armedAt,
                 timeout, finished, stdout, stderr, terminations, pending, spawns,
                 failures>>
  /\ UNCHANGED <<mergeVars, rendererVars, callVars>>

\* runWithTempFile: await fs.mkdtemp.  It is outside the try block.
Mkdtemp ==
  /\ pc = "mkdtemp"
  /\ \E outcome \in {"ok", "ENOENT", "EACCES"} :
       IF outcome = "ok"
       THEN /\ dirs' = Append(dirs, [state |-> "present", file |-> FALSE,
                                     rmFailed |-> FALSE])
            /\ pc' = "writeFile"
            /\ UNCHANGED <<pending, failures>>
       ELSE /\ pending' = Some(Throw(FsError("mkdtemp", outcome)))
            /\ failures' = failures \cup {"mkdtemp"}
            /\ pc' = "unwind"
            /\ UNCHANGED dirs
  /\ UNCHANGED <<host, payload, clock, clockSteps, start, runtime, child, timer, armedAt,
                 timeout, finished, stdout, stderr, terminations, response, spawns>>
  /\ UNCHANGED <<mergeVars, rendererVars, callVars>>

\* runWithTempFile: await fs.writeFile
WriteFile ==
  /\ pc = "writeFile"
  /\ \E outcome \in {"ok", "ENOENT", "EACCES"} :
       IF outcome = "ok"
       THEN /\ dirs' = [dirs EXCEPT ![Len(dirs)].file = TRUE]
            /\ pc' = "spawn"
            /\ UNCHANGED <<pending, failures>>
       ELSE /\ pending' = Some(Throw(FsError("writeFile", outcome)))
            /\ failures' = failures \cup {"writeFile"}
            /\ pc' = "finally"
            /\ UNCHANGED dirs
  /\ UNCHANGED <<host, payload, clock, clockSteps, start, runtime, child, timer, armedAt,
                 timeout, finished, stdout, stderr, terminations, response, spawns>>
  /\ UNCHANGED <<mergeVars, rendererVars, callVars>>

\* runProcess: spawn, the timer and the listeners
RunProcess ==
  /\ pc = "spawn"
  /\ \E outcome \in (IF Installed(Command) THEN {"ok", "EACCES"} ELSE {"ENOENT"}) :
       /\ child' = IF outcome = "ok" THEN "running" ELSE "spawnfail"
       /\ spawns' = Append(spawns, [command |-> Command, outcome |-> outcome])
       /\ failures' = IF outcome = "ok" THEN failures ELSE failures \cup {"spawn"}
  /\ timer' = "armed"
  /\ armedAt' = clock
  /\ timeout' = FALSE
  /\ finished' = FALSE
  /\ stdout' = <<>>
  /\ stderr' = <<>>
  /\ pc' = "wait"
  /\ UNCHANGED <<host, payload, clock, clockSteps, start, runtime, dirs, terminations,
                 pending, response>>
  /\ UNCHANGED <<mergeVars, rendererVars, callVars>>

\* child.stdout / child.stderr 'data' listeners
OnData ==
  /\ pc = "wait"
  /\ child \in {"running", "killed"}
  /\ Len(stdout) + Len(stderr) < MaxChunks
  /\ \/ stdout' = Append(stdout, "x") /\ UNCHANGED stderr
     \/ stderr' = Append(stderr, "x") /\ UNCHANGED stdout
  /\ UNCHANGED <<pc, host, payload, clock, clockSteps, start, runtime, dirs, child,
                 timer, armedAt, timeout, finished, terminations, pending,
                 response, spawns, failures>>
  /\ UNCHANGED <<mergeVars, rendererVars, callVars>>

\* the setTimeout callback of runProcess: it runs whenever the timer is still
\* set when it is due.  A spawn failure is reported on the next tick of the
\* event loop, before any timer.  Of a process that has closed nothing is left
\* to kill.
OnTimeout ==
  /\ timer = "armed"
  /\ child # "spawnfail"
  /\ clock - armedAt >= EXECUTION_TIMEOUT_MS
  /\ timeout' = TRUE
  /\ timer' = "fired"
  /\ \E groupKill \in BOOLEAN, pidKill \in BOOLEAN, taskkill \in BOOLEAN :
       LET gone == /\ child = "running"
                   /\ terminateProcessTree(TRUE, groupKill, pidKill, taskkill)
       IN  /\ child' = IF gone THEN "killed" ELSE child
           /\ terminations' = Append(terminations, gone)
  /\ UNCHANGED <<pc, host, payload, clock, clockSteps, start, runtime, dirs, armedAt,
                 finished, stdout, stderr, pending, response, spawns, failures>>
  /\ UNCHANGED <<mergeVars, rendererVars, callVars>>

\* child 'error' listener, and runWithTempFile up to its finally block
OnError ==
  /\ pc = "wait"
  /\ child = "spawnfail"
  /\ ~finished
  /\ timer' = clearTimeout(timer)
  /\ finished' = TRUE
  /\ child' = "failed"
  /\ LET error == [code |-> spawns[Len(spawns)].outcome, message |-> "spawn failed"]
     IN  pending' =
           IF isMissingBinary(error)
           THEN Some(Return(RunResult(
                  [stdout |-> <<>>, stderr |-> <<>>, exitCode |-> None,
                   timedOut |-> FALSE, errorMessage |-> Some(error.message)],
                  clock - start)))
           ELSE Some(Throw(error))
  /\ pc' = "finally"
  /\ UNCHANGED <<host, payload, clock, clockSteps, start, runtime, dirs, armedAt,
                 timeout, stdout, stderr, terminations, response, spawns, failures>>
  /\ UNCHANGED <<mergeVars, rendererVars, callVars>>

\* the exit codes a process may close with: its own, or none when a signal
\* ended it
CloseCodes == {Some(0), Some(1), None}

\* child 'close' listener, and runWithTempFile up to its finally block
OnClose(code) ==
  /\ pc = "wait"
  /\ child \in {"running", "killed"}
  /\ ~finished
  /\ timer' = clearTimeout(timer)
  /\ finished' = TRUE
  /\ child' = "closed"
  /\ pending' = Some(Return(RunResult(
                  [stdout |-> stdout, stderr |-> stderr, exitCode |-> code,
                   timedOut |-> timeout, errorMessage |-> None],
                  clock - start)))
  /\ pc' = "finally"
  /\ UNCHANGED <<host, payload, clock, clockSteps, start, runtime, dirs, armedAt,
                 timeout, stdout, stderr, terminations, response, spawns, failures>>
  /\ UNCHANGED <<mergeVars, rendererVars, callVars>>

\* child 'close' listener after the 'error' listener has run: finished is set
LateClose ==
  /\ child = "failed"
  /\ finished
  /\ child' = "closed"
  /\ UNCHANGED <<pc, host, payload, clock, clockSteps, start, runtime, dirs, timer,
                 armedAt, timeout, finished, stdout, stderr, terminations, pending,
                 response, spawns, failures>>
  /\ UNCHANGED <<mergeVars, rendererVars, callVars>>

\* the finally block of runWithTempFile: await fs.rm.  With force, a missing
\* path is no error; a failure of another kind replaces the pending completion.
Cleanup ==
  /\ pc = "finally"
  /\ \E outcome \in {"ok", "EACCES"} :
       IF outcome = "ok"
       THEN /\ dirs' = [dirs EXCEPT ![Len(dirs)] = RemoveTree(@)]
            /\ UNCHANGED <<pending, failures>>
       ELSE /\ dirs' = [dirs EXCEPT ![Len(dirs)].rmFailed = TRUE]
            /\ pending' = Some(Throw(FsError("rm", outcome)))
            /\ failures' = failures \cup {"rm"}
  /\ pc' = "unwind"
  /\ UNCHANGED <<host, payload, clock, clockSteps, start, runtime, child, timer,
                 armedAt, timeout, finished, stdout, stderr, terminations, response,
                 spawns>>
  /\ UNCHANGED <<mergeVars, rendererVars, callVars>>

\* runWithTempFile has completed: the catch of runPython (a missing binary
\* moves on to the next runtime), the catch of executeCode, the return
Unwind ==
  /\ pc = "unwind"
  /\ LET outcome == pending[1]
         runner == Runner(NormalizedLang(payload.lang))
     IN  IF outcome.kind = "return"
         THEN Settle(outcome) /\ UNCHANGED runtime
         ELSE IF runner = "python" /\ isMissingBinary(outcome.error)
         THEN IF runtime < Len(Runtimes)
              THEN pc' = "mkdtemp" /\ runtime' = runtime + 1 /\ UNCHANGED response
              ELSE /\ Settle(Return(UnsupportedResult("no python runtime found",
                                                      clock - start)))
                   /\ UNCHANGED runtime
         ELSE Settle(executeCodeCatch(outcome.error, clock - start)) /\ UNCHANGED runtime
  /\ pending' = None
  /\ UNCHANGED <<host, payload, clock, clockSteps, start, dirs, child, timer, armedAt,
                 timeout, finished, stdout, stderr, terminations, spawns, failures>>
  /\ UNCHANGED <<mergeVars, rendererVars, callVars>>

\* time passes while the call is in progress
Tick(ms) ==
  /\ pc \notin {"idle", "returned", "raised"}
  /\ clockSteps < MaxTicks
  /\ clock' = clock + ms
  /\ clockSteps' = clockSteps + 1
  /\ UNCHANGED <<pc, host, payload, start, runtime, dirs, child, timer, armedAt,
                 timeout, finished, stdout, stderr, terminations, pending, response,
                 spawns, failures>>
  /\ UNCHANGED <<mergeVars, rendererVars, callVars>>

ExecNext ==
  \/ \E lang \in PayloadLangs, cwd \in PayloadCwds : ExecuteCode(lang, cwd)
  \/ Switch
  \/ Mkdtemp
  \/ WriteFile
  \/ RunProcess
  \/ OnData
  \/ OnTimeout
  \/ OnError
  \/ \E code \in CloseCodes : OnClose(code)
  \/ LateClose
  \/ Cleanup
  \/ Unwind
  \/ \E ms \in {1, EXECUTION_TIMEOUT_MS} : Tick(ms)

----------------------------------------------------------------------------
(* Properties of the executor                                               *)

\* the result executeCode returned
Returned == response[1]

\* the failures of the run are spawn failures only: the file system worked
FileSystemWorked == failures \subseteq {"spawn"}

\* C3: a dispatch that spawned a process returns in the end: once the timer
\* has fired the call is completed, also when the process was not killed and
\* never closes.
C3_DispatchReturnsAfterTimeout == (timer = "fired") ~> (pc = "returned")

\* C4: when the timer fired before the process exited, the Terminator was
\* called and the result has status timeout and exitCode null, whatever code
\* the process closed with.
C4_TimeoutResult ==
  pc = "returned" /\ timer = "fired" =>
    /\ terminations # <<>>
    /\ Returned.status = "timeout"
    /\ Returned.exitCode = None

\* C5: python3 is tried first; when its spawn fails with ENOENT python is
\* tried next, and a spawn failure of another kind ends the attempts.
C5_PythonFallThrough ==
  pc = "returned" /\ FileSystemWorked /\ spawns # <<>>
    /\ Runner(NormalizedLang(payload.lang)) = "python" =>
      /\ spawns[1].command = "python3"
      /\ spawns[1].outcome = "ENOENT" =>
           Len(spawns) = 2 /\ spawns[2].command = "python"
      /\ spawns[1].outcome = "EACCES" => Len(spawns) = 1

\* the interpreter the request needs is absent on the host
InterpreterAbsent ==
  LET runner == Runner(NormalizedLang(payload.lang))
  IN  \/ runner = "python" /\ ~host.python3 /\ ~host.python
      \/ runner = "bash" /\ ~host.bash

\* C6: when the interpreter is absent the result has status unsupported and
\* exitCode null.
C6_AbsentInterpreterUnsupported ==
  pc = "returned" /\ payload.cwd # "missing" /\ FileSystemWorked /\ InterpreterAbsent =>
    Returned.status = "unsupported" /\ Returned.exitCode = None

\* a temporary directory and its snippet are gone
Removed(dir) == dir.state = "removed" /\ ~dir.file

C8_FailuresBecomeErrorResults ==
  /\ pc # "raised"
  /\ pc = "returned" /\ failures # {} =>
       Returned.status = "error" /\ Returned.message # None

\* C9: a request with a missing working directory has returned status error,
\* exitCode null and durationMs 0, no directory was created and no process
\* spawned, whatever the language.
C9_MissingCwdShortCircuits ==
  pc # "idle" /\ payload.cwd = "missing" =>
    /\ pc = "returned"
    /\ Returned.status = "error"
    /\ Returned.exitCode = None
    /\ Returned.durationMs = 0
    /\ dirs = <<>>
    /\ spawns = <<>>

C9_Witness ==
  /\ pc = "returned"
  /\ payload.cwd = "missing"
  /\ NormalizedLang(payload.lang) = <<"py">>
  /\ host.python3

\* the language tags executeCode knows
RecognizedTags ==
  { <<"python">>, <<"py">>, <<"javascript">>, <<"js">>, <<"bash">>, <<"sh">> }

\* a request with an existing working directory and an unrecognized tag
UnknownTagRequest ==
  /\ pc # "idle"
  /\ payload.cwd # "missing"
  /\ NormalizedLang(payload.lang) \notin RecognizedTags

\* C10, as claimed: an unrecognized tag returns status unsupported, exitCode
\* null and durationMs 0, with no directory created and no process spawned.
C10_UnknownTagZeroDuration ==
  UnknownTagRequest /\ pc = "returned" =>
    /\ Returned.status = "unsupported"
    /\ Returned.exitCode = None
    /\ Returned.durationMs = 0
    /\ dirs = <<>>
    /\ spawns = <<>>

\* C10, amended: an unrecognized tag returns status unsupported, exitCode null
\* and as durationMs the time since executeCode took its start time, with no
\* directory created and no process spawned at any point.
C10_UnknownTagUnsupported ==
  UnknownTagRequest =>
    /\ dirs = <<>>
    /\ spawns = <<>>
    /\ pc \in {"switch", "returned"}
    /\ pc = "returned" =>
         /\ Returned.status = "unsupported"
         /\ Returned.exitCode = None
         /\ Returned.durationMs = clock - start
         /\ Returned.durationMs >= 0

C10_Witness ==
  /\ UnknownTagRequest
  /\ pc = "returned"
  /\ Returned.status = "unsupported"
  /\ Returned.durationMs > 0

\* C21: when the process has closed, or has failed to spawn, before the timer
\* fired, the timer is cancelled, the terminator is not invoked, and the
\* result is not marked timed out.
C21_CloseCancelsTimer ==
  finished /\ ~timeout
    => /\ timer = "cleared"
       /\ terminations = <<>>
       /\ pc = "returned" => Returned.status # "timeout"

\* a spawn call of the request started a process
Spawned == \E k \in 1..Len(spawns) : spawns[k].outcome = "ok"

\* C22: in every result executeCode returns, status is ok exactly when exitCode
\* is 0; exitCode is null when status is unsupported or timeout and when no
\* process was spawned; a result with another exit code has status error and
\* carries the captured stdout and stderr.
C22_StatusMatchesExitCode ==
  pc = "returned"
    => /\ Returned.status = "ok" <=> Returned.exitCode = Some(0)
       /\ Returned.status \in {"unsupported", "timeout"} => Returned.exitCode = None
       /\ ~Spawned => Returned.exitCode = None
       /\ Returned.exitCode \notin {None, Some(0)}
            => /\ Returned.status = "error"
               /\ Returned.stdout = stdout
               /\ Returned.stderr = stderr

\* a process wrote output and closed with exit code 1, and the call returned
C22_Witness ==
  /\ pc = "returned"
  /\ Returned.exitCode = Some(1)
  /\ Returned.status = "error"
  /\ Returned.stdout # <<>>

\* the process closed before the timer was due, the timeout has passed since,
\* and the call has returned
C21_Witness ==
  /\ finished
  /\ ~timeout
  /\ child = "closed"
  /\ clock - armedAt >= EXECUTION_TIMEOUT_MS
  /\ pc = "returned"

----------------------------------------------------------------------------
(* Specifications: each part of the program on its own, the others at rest. *)

MergeIdle == markdown = <<>> /\ merges = <<>>

RendererIdle ==
  /\ currentMarkdown = <<>>
  /\ codeBlockMap = <<>>
  /\ codeBlockSource = None
  /\ preview = [gen |-> 0, controls |-> {}]
  /\ renders = <<>>
  /\ runs = <<>>
  /\ runningExecIds = {}
  /\ edits = 0
  /\ lastApply = None

ExecIdle == ExecInit /\ host = [platform |-> "posix", bash |-> TRUE, python3 |-> TRUE,
                                python |-> TRUE]

CallIdle == given = None /\ computed = None

MergeSpecInit == MergeInit /\ RendererIdle /\ ExecIdle /\ CallIdle

MergeSpec == MergeSpecInit /\ [][MergeNext]_vars

RendererSpecInit == RendererInit /\ MergeIdle /\ ExecIdle /\ CallIdle

RendererSpec == RendererSpecInit /\ [][RendererNext]_vars

ExecSpecInit == ExecInit /\ MergeIdle /\ RendererIdle /\ CallIdle

ParseSpecInit == ParseInit /\ MergeIdle /\ RendererIdle /\ ExecIdle

ParseSpec == ParseSpecInit /\ [][ParseNext]_vars

BuildSpecInit == BuildInit /\ MergeIdle /\ RendererIdle /\ ExecIdle

BuildSpec == BuildSpecInit /\ [][BuildNext]_vars

CallSpecInit == CallInit /\ MergeIdle /\ RendererIdle /\ ExecIdle

CallSpec == CallSpecInit /\ [][CallNext]_vars

HashSpecInit == HashInit /\ MergeIdle /\ RendererIdle /\ ExecIdle

HashSpec == HashSpecInit /\ [][HashNext]_vars

ExecSpec == ExecSpecInit /\ [][ExecNext]_vars

\* What the event loop and the operating system guarantee: a continuation that
\* is ready runs, a timer that is due fires, a spawn failure is reported, and a
\* process that was killed closes.  Nothing makes a running process exit.
ExecFairness ==
  /\ WF_vars(Switch)
  /\ WF_vars(Mkdtemp)
  /\ WF_vars(WriteFile)
  /\ WF_vars(RunProcess)
  /\ WF_vars(OnTimeout)
  /\ WF_vars(OnError)
  /\ WF_vars(child = "killed" /\ \E code \in CloseCodes : OnClose(code))
  /\ WF_vars(Cleanup)
  /\ WF_vars(Unwind)

FairExecSpec == ExecSpec /\ ExecFairness

====
